---- MODULE Spec2Model ----
(***************************************************************************)
(* Multiclass focal loss callbacks for a gradient-boosting trainer:         *)
(* focal_loss_lgb (objective: gradient and Hessian) and                     *)
(* focal_loss_lgb_eval_error (evaluation metric), as defined in            *)
(* examples/Lightgbm_with_Focal_Loss_multiclass.ipynb, called on score and  *)
(* label arrays drawn from bounded sets.  The arrays are objects in a      *)
(* memory, and the bodies of the two functions run statement by statement  *)
(* on it.                                                                   *)
(*                                                                         *)
(* Real numbers are modelled in fixed point: the integer v stands for the  *)
(* real v / Scale.  Products and quotients are rounded to six decimals, so *)
(* the kernel's values agree with the floating-point ones to about 1e-5.   *)
(* The finite-difference scheme evaluates the kernel at scores displaced   *)
(* by dx = 1e-6, where the kernel's values differ by less than the last    *)
(* of the six decimals: there the kernel is computed on second-order       *)
(* expansions in dx, so that the differences and their quotients by dx and *)
(* dx**2 keep about five and four decimals.                                 *)
(* Arrays are sequences (1-based); the 0-based index k of the source is    *)
(* element k+1.                                                             *)
(***************************************************************************)
EXTENDS Integers, Sequences, FiniteSets

\* ------------------------------------------------------------------------
\* Bounds of the model: a Dataset has fewer than MaxRows observations.
MaxRows == 3

\* the number of classes of the notebook's data, the last argument of the
\* two lambdas; the model also covers two classes
NumClass == 3

\* ------------------------------------------------------------------------
\* Fixed-point arithmetic: v stands for the real v / Scale.
Kilo == 10 * 10 * 10
Scale == Kilo * Kilo
One == Scale

Abs(v) == IF v < 0 THEN -v ELSE v
Sgn(v) == IF v < 0 THEN -1 ELSE 1

\* a*b for a, b >= 0, rounded to six decimals, computed within 32 bits
MulNN(a, b) ==
    LET ah == a \div Kilo
        al == a % Kilo
        bh == b \div Kilo
        bl == b % Kilo
        m  == ah * bl + al * bh
    IN  ah * bh + (m \div Kilo)
            + (((m % Kilo) * Kilo + al * bl + Scale \div 2) \div Scale)

\* the product a*b, rounded to six decimals
Mul(a, b) == Sgn(a) * Sgn(b) * MulNN(Abs(a), Abs(b))

\* a / k for a whole k > 0, truncated toward zero
Quot(a, k) == Sgn(a) * (Abs(a) \div k)

RECURSIVE DivDigits(_, _, _, _)
DivDigits(q, r, b, n) ==
    IF n = 0 THEN q + (IF 2 * r >= b THEN 1 ELSE 0)
    ELSE DivDigits(q * 10 + ((r * 10) \div b), (r * 10) % b, b, n - 1)

\* the quotient a/b for a >= 0, b > 0, rounded to six decimals
Div(a, b) == DivDigits(a \div b, a % b, b, 6)

\* the quotient a/b for b > 0, rounded to six decimals
DivS(a, b) == Sgn(a) * Div(Abs(a), b)

\* e^n for the integers n in -4..3, rounded to six decimals
ExpInt(n) ==
    CASE n = -4 -> 18316
      [] n = -3 -> 49787
      [] n = -2 -> 135335
      [] n = -1 -> 367879
      [] n = 0  -> 1000000
      [] n = 1  -> 2718282
      [] n = 2  -> 7389056
      [] n = 3  -> 20085537

\* the Taylor series of e^f for 0 <= f < 1: sum of f^k / k!, from the term k on
RECURSIVE ExpSeries(_, _, _)
ExpSeries(term, f, k) ==
    IF term = 0 THEN 0
    ELSE term + ExpSeries(MulNN(term, f) \div k, f, k + 1)

\* np.exp(y) for -4 <= y < 4: e^floor(y) * e^frac(y)
Exp(y) == MulNN(ExpInt(y \div Scale), ExpSeries(One, y % Scale, 1))

\* sum of z^(2j+1) / (2j+1) for 0 <= z < 1, from the power pw = z^k on
RECURSIVE AtanhSeries(_, _, _)
AtanhSeries(pw, zz, k) ==
    IF pw = 0 THEN 0
    ELSE (pw \div k) + AtanhSeries(MulNN(pw, zz), zz, k + 2)

\* -ln(m) for 1/2 <= m <= 1: 2 * atanh((1 - m) / (1 + m))
NegLnMantissa(m) ==
    LET z == Div(One - m, One + m)
    IN  2 * AtanhSeries(z, MulNN(z, z), 1)

\* -ln(v) for 0 < v <= 1: v is doubled into [1/2, 1], each doubling adds
\* ln 2 = 0.693147
RECURSIVE NegLn(_)
NegLn(v) ==
    IF 2 * v <= One THEN 693147 + NegLn(2 * v)
    ELSE NegLnMantissa(v)

\* np.log(v) for 0 < v <= 1
Log(v) == -NegLn(v)

\* b ** g for a real b >= 0 and a whole exponent g >= 0 (b ** 0 = 1)
RECURSIVE Pow(_, _)
Pow(b, g) == IF g = 0 THEN One ELSE Mul(b, Pow(b, g - 1))

\* ------------------------------------------------------------------------
\* Expansions in dx: <<c0, c1, c2>> stands for the real c0 + c1*dx + c2*dx**2
\* with dx = 1e-6, each coefficient a fixed-point real; terms in dx**3 are
\* dropped.

\* the real v
J(v) == <<v, 0, 0>>

JAdd(u, v) == <<u[1] + v[1], u[2] + v[2], u[3] + v[3]>>

JSub(u, v) == <<u[1] - v[1], u[2] - v[2], u[3] - v[3]>>

JNeg(u) == <<-u[1], -u[2], -u[3]>>

\* k * u for a whole number k
JTimes(k, u) == <<k * u[1], k * u[2], k * u[3]>>

\* u / k for a whole number k > 0
JOver(u, k) == <<Quot(u[1], k), Quot(u[2], k), Quot(u[3], k)>>

\* w * u for a real w
JScale(w, u) == <<Mul(w, u[1]), Mul(w, u[2]), Mul(w, u[3])>>

\* u * v
JMul(u, v) ==
    << Mul(u[1], v[1]),
       Mul(u[1], v[2]) + Mul(u[2], v[1]),
       Mul(u[1], v[3]) + Mul(u[2], v[2]) + Mul(u[3], v[1]) >>

\* 1 / v for v[1] > 0
JRecip(v) ==
    LET r  == Div(One, v[1])
        q1 == Mul(r, v[2])
        q2 == Mul(r, v[3])
    IN  <<r, -Mul(r, q1), Mul(r, Mul(q1, q1) - q2)>>

\* np.exp(u) for -4 <= u[1] < 4
JExp(u) ==
    LET e == Exp(u[1])
    IN  <<e, Mul(e, u[2]), Mul(e, u[3] + Quot(Mul(u[2], u[2]), 2))>>

\* np.log(u) for 0 < u[1] <= 1
JLog(u) ==
    LET q1 == DivS(u[2], u[1])
        q2 == DivS(u[3], u[1])
    IN  <<Log(u[1]), q1, q2 - Quot(Mul(q1, q1), 2)>>

\* b ** g for a whole exponent g >= 0 (b ** 0 = 1)
RECURSIVE JPow(_, _)
JPow(b, g) == IF g = 0 THEN J(One) ELSE JMul(b, JPow(b, g - 1))

\* u / dx, exactly: the coefficient of dx**k becomes the one of dx**(k-1)
DivByDx(u) == <<u[1] * Scale + u[2], u[3], 0>>

\* u / dx ** n
RECURSIVE DivByDxPow(_, _)
DivByDxPow(u, n) == IF n = 0 THEN u ELSE DivByDxPow(DivByDx(u), n - 1)

\* the real u stands for, to six decimals
Value(u) == u[1] + Quot(u[2] + Quot(u[3], Scale), Scale)

\* ------------------------------------------------------------------------
\* Array primitives the callbacks use (numpy), on sequences.

\* the step dx = 1e-6 passed to derivative
dx == <<0, One, 0>>

\* np.eye(num_class): row r has its 1.0 in column r
Eye(C) == [r \in 1..C |-> [c \in 1..C |-> IF r = c THEN 1 ELSE 0]]

\* label.astype('int'): truncation toward zero
AsInt(l) == Sgn(l) * (Abs(l) \div Scale)

\* mutant: indexing without negative indices
OutOfBoundsNegative(idx, C) == idx >= C \/ idx < 0

\* whether eye[idx] raises IndexError for the integer index idx
OutOfBounds(idx, C) == idx >= C \/ idx < -C

\* mutant: the row after the indexed one
EyeRowNext(idx, C) == Eye(C)[((idx + 1) % C) + 1]

\* the row eye[idx] of np.eye(C): a negative idx counts from the last row
EyeRow(idx, C) == Eye(C)[(IF idx < 0 THEN idx + C ELSE idx) + 1]

\* np.eye(num_class)[label.astype('int')]: one row of the identity per label
OneHot(label, C) == [i \in 1..Len(label) |-> EyeRow(AsInt(label[i]), C)]

\* whether np.eye(num_class)[label.astype('int')] raises IndexError
OneHotFails(label, C) == \E i \in 1..Len(label) : OutOfBounds(AsInt(label[i]), C)

\* the rows of flat.reshape(-1, C), for a length that is a multiple of C:
\* row-major, cell (r, c) takes flat position r*C + c
Reshape(flat, C) ==
    [r \in 1..(Len(flat) \div C) |-> [c \in 1..C |-> flat[(r - 1) * C + c]]]

\* the values of a 2-D array in the order of its buffer: row-major, cell
\* (r, c) at position r*C + c
RowMajor(m) ==
    LET M == Len(m)
        C == Len(m[1])
    IN  [k \in 1..(M * C) |-> m[((k - 1) \div C) + 1][((k - 1) % C) + 1]]

\* mutant: m.flatten() in the default row-major order
FlattenC(m) == RowMajor(m)

\* m.flatten('F'): column-major, cell (r, c) goes to flat position c*M + r
FlattenF(m) ==
    LET M == Len(m)
        C == Len(m[1])
    IN  [k \in 1..(M * C) |-> m[((k - 1) % M) + 1][((k - 1) \div M) + 1]]

\* x0 + k*dx for an array x0 and a whole number k of steps
Shift(x0, k) ==
    [r \in 1..Len(x0) |-> [c \in 1..Len(x0[r]) |-> JAdd(J(x0[r][c]), JTimes(k, dx))]]

\* ------------------------------------------------------------------------
\* focal_loss_lgb

\* p = 1/(1+np.exp(-x))
Sigmoid(x) == JRecip(JAdd(J(One), JExp(JNeg(x))))

\* the inner function fl(x, t) of focal_loss_lgb, on one cell
fl(x, t, a, g) ==
    LET p == Sigmoid(x)
    IN  JMul(JScale(-(a * t + (One - a) * (1 - t)),
                    JPow(JSub(J(One), JAdd(JTimes(t, p),
                                           JTimes(1 - t, JSub(J(One), p)))), g)),
             JAdd(JTimes(t, JLog(p)), JTimes(1 - t, JLog(JSub(J(One), p)))))

\* partial_fl = lambda x: fl(x, y_true), on arrays of equal shape
partial_fl(x, y_true, a, g) ==
    [r \in 1..Len(x) |-> [c \in 1..Len(x[r]) |-> fl(x[r][c], y_true[r][c], a, g)]]

\* mutant: the differences of the outer points, not halved
WeightsUnhalved(n) ==
    IF n = 1 THEN [num |-> <<-1, 0, 1>>, den |-> 1]
    ELSE [num |-> <<1, -2, 1>>, den |-> 1]

\* the central-difference weights of derivative for order = 3, as whole
\* numerators over a common denominator: array([-1, 0, 1]) / 2.0 and
\* array([1, -2.0, 1])
Weights(n) ==
    IF n = 1 THEN [num |-> <<-1, 0, 1>>, den |-> 2]
    ELSE [num |-> <<1, -2, 1>>, den |-> 1]

\* derivative(partial_fl, y_pred, n, dx): the weighted sum of partial_fl at
\* y_pred - dx, y_pred, y_pred + dx, divided by dx ** n.  The result is the
\* value of the scheme to six decimals; the rounding of float64 in the sum,
\* which the division by dx ** 2 = 1e-12 magnifies to about 1e-3, is not part
\* of it.
derivative(y_pred, y_true, a, g, n) ==
    LET w  == Weights(n)
        f1 == partial_fl(Shift(y_pred, -1), y_true, a, g)
        f2 == partial_fl(Shift(y_pred, 0), y_true, a, g)
        f3 == partial_fl(Shift(y_pred, 1), y_true, a, g)
    IN  [r \in 1..Len(y_pred) |-> [c \in 1..Len(y_pred[r]) |->
            Value(DivByDxPow(
                JOver(JAdd(JAdd(JTimes(w.num[1], f1[r][c]),
                                JTimes(w.num[2], f2[r][c])),
                           JTimes(w.num[3], f3[r][c])),
                      w.den),
                n))]]

NoResult == [status |-> "none", grad |-> <<>>, hess |-> <<>>]
IndexError == [status |-> "IndexError", grad |-> <<>>, hess |-> <<>>]

\* what focal_loss_lgb(y_pred, dtrain, alpha, gamma, num_class) returns, as
\* a function of the values of y_pred and of dtrain.label
focal_loss_lgb(y_pred, label, alpha, gamma, C) ==
    IF OneHotFails(label, C) THEN IndexError
    ELSE LET y_true == OneHot(label, C)
             pred   == Reshape(y_pred, C)
             grad   == derivative(pred, y_true, alpha, gamma, 1)
             hess   == derivative(pred, y_true, alpha, gamma, 2)
         IN  [status |-> "ok", grad |-> FlattenF(grad), hess |-> FlattenF(hess)]

\* ------------------------------------------------------------------------
\* focal_loss_lgb_eval_error

\* mutant: the loss without the alpha weights
EvalLossUnweighted(x, y, a, g) ==
    LET p == Div(One, One + Exp(-x))
    IN  Mul(-Pow(One - (y * p + (1 - y) * (One - p)), g),
            y * Log(p) + (1 - y) * Log(One - p))

\* mutant: the loss with p = 1/(1+np.exp(x))
EvalLossMirrored(x, y, a, g) ==
    LET p == Div(One, One + Exp(x))
    IN  Mul(Mul(-(a * y + (One - a) * (1 - y)),
                Pow(One - (y * p + (1 - y) * (One - p)), g)),
            y * Log(p) + (1 - y) * Log(One - p))

\* the loss expression of focal_loss_lgb_eval_error, on one cell
EvalLoss(x, y, a, g) ==
    LET p == Div(One, One + Exp(-x))
    IN  Mul(Mul(-(a * y + (One - a) * (1 - y)),
                Pow(One - (y * p + (1 - y) * (One - p)), g)),
            y * Log(p) + (1 - y) * Log(One - p))

RECURSIVE SumSeq(_)
SumSeq(s) == IF s = <<>> THEN 0 ELSE Head(s) + SumSeq(Tail(s))

\* np.sum of a 2-D array
SumAll(m) == SumSeq([r \in 1..Len(m) |-> SumSeq(m[r])])

\* mutant: the variant np.sum(loss)/num_class
SumOverClasses(m) == SumAll(m) \div Len(m[1])

\* np.mean(loss): the sum over all cells divided by the number of cells
Mean(m) == SumAll(m) \div (Len(m) * Len(m[1]))

NoMetric == [status |-> "none", name |-> "", value |-> 0, higher |-> FALSE]
MetricError == [status |-> "IndexError", name |-> "", value |-> 0, higher |-> FALSE]

\* what focal_loss_lgb_eval_error(y_pred, dtrain, alpha, gamma, num_class)
\* returns, as a function of the values of y_pred and of dtrain.label
focal_loss_lgb_eval_error(y_pred, label, alpha, gamma, C) ==
    IF OneHotFails(label, C) THEN MetricError
    ELSE LET y_true == OneHot(label, C)
             pred   == Reshape(y_pred, C)
             loss   == [r \in 1..Len(pred) |-> [c \in 1..C |->
                           EvalLoss(pred[r][c], y_true[r][c], alpha, gamma)]]
         IN  [status |-> "ok", name |-> "focal_loss", value |-> Mean(loss),
              higher |-> FALSE]

\* ------------------------------------------------------------------------
\* Objects.  A memory m holds the ndarray objects, m.arr[id] with the shape
\* of object id and the number of the buffer that holds its values, and the
\* buffers, m.buf[b] with the values of buffer b in row-major order.
\* Objects over the same buffer share their values.

\* the values of the array id, in the order of its buffer
Flat(m, id) == m.buf[m.arr[id].buf]

\* the values of the 2-D array id, as rows
Matrix(m, id) == Reshape(Flat(m, id), m.arr[id].shape[2])

\* a new array of the given shape, with a buffer of its own that holds data
NewArray(m, shape, data) ==
    [mem |-> [arr |-> Append(m.arr, [shape |-> shape, buf |-> Len(m.buf) + 1]),
              buf |-> Append(m.buf, data)],
     id  |-> Len(m.arr) + 1]

\* mutant: a.shape = (-1, C), which reshapes the object a itself
ReshapeInPlace(m, id, C) ==
    [mem |-> [m EXCEPT !.arr[id].shape = <<Len(Flat(m, id)) \div C, C>>],
     id  |-> id]

\* a.reshape(-1, C): a new object over the buffer of a, a itself keeps its
\* shape
ReshapeView(m, id, C) ==
    [mem |-> [m EXCEPT !.arr = Append(@, [shape |-> <<Len(Flat(m, id)) \div C, C>>,
                                          buf   |-> m.arr[id].buf])],
     id  |-> Len(m.arr) + 1]

\* the memory after a call that started in the memory m0 has returned or
\* raised: the objects and the buffers created during the call are gone
Release(m, m0) ==
    [arr |-> SubSeq(m.arr, 1, Len(m0.arr)), buf |-> SubSeq(m.buf, 1, Len(m0.buf))]

\* ------------------------------------------------------------------------
\* The bodies of the two functions, statement by statement.  A frame holds
\* the memory, the arrays its local names are bound to (dtrain stands for the
\* label array of the Dataset) and the exception raised, if any.

\* the frame when the body starts: the parameters are bound to the caller's
\* objects
Enter(m, y_pred, dtrain) ==
    [mem |-> m, y_pred |-> y_pred, dtrain |-> dtrain, y_true |-> 0,
     exc |-> "none"]

\* y_true = dtrain.label: the local name is bound to the Dataset's array
BindLabel(f) == [f EXCEPT !.y_true = f.dtrain]

\* y_true = np.eye(num_class)[y_true.astype('int')]: astype, np.eye and the
\* indexing each build a new array; the local name is bound to the last, or
\* the indexing raises IndexError
EncodeLabels(f, C) ==
    LET label == Flat(f.mem, f.y_true)
        new   == NewArray(f.mem, <<Len(label), C>>, RowMajor(OneHot(label, C)))
    IN  IF OneHotFails(label, C) THEN [f EXCEPT !.exc = "IndexError"]
        ELSE [f EXCEPT !.mem = new.mem, !.y_true = new.id]

\* y_pred = y_pred.reshape(-1,num_class): the local name is bound to the
\* reshaped object
ReshapeScores(f, C) ==
    LET view == ReshapeView(f.mem, f.y_pred, C)
    IN  [f EXCEPT !.mem = view.mem, !.y_pred = view.id]

\* the first statements of both bodies, up to the exception if one is raised
Prologue(m, y_pred, dtrain, C) ==
    LET f == EncodeLabels(BindLabel(Enter(m, y_pred, dtrain)), C)
    IN  IF f.exc # "none" THEN f ELSE ReshapeScores(f, C)

\* the body of focal_loss_lgb run in the memory m on the objects y_pred and
\* dtrain: the memory after the call and what the call returned
run_focal_loss_lgb(m, y_pred, dtrain, a, g, C) ==
    LET f    == Prologue(m, y_pred, dtrain, C)
        x0   == Matrix(f.mem, f.y_pred)
        t    == Matrix(f.mem, f.y_true)
        grad == derivative(x0, t, a, g, 1)
        hess == derivative(x0, t, a, g, 2)
    IN  [mem    |-> Release(f.mem, m),
         result |-> IF f.exc # "none" THEN IndexError
                    ELSE [status |-> "ok", grad |-> FlattenF(grad),
                          hess |-> FlattenF(hess)]]

\* the body of focal_loss_lgb_eval_error run in the memory m on the objects
\* y_pred and dtrain: the memory after the call and what the call returned
run_focal_loss_lgb_eval_error(m, y_pred, dtrain, a, g, C) ==
    LET f    == Prologue(m, y_pred, dtrain, C)
        x    == Matrix(f.mem, f.y_pred)
        t    == Matrix(f.mem, f.y_true)
        loss == [r \in 1..Len(x) |-> [c \in 1..Len(x[r]) |->
                    EvalLoss(x[r][c], t[r][c], a, g)]]
    IN  [mem    |-> Release(f.mem, m),
         result |-> IF f.exc # "none" THEN MetricError
                    ELSE [status |-> "ok", name |-> "focal_loss",
                          value |-> Mean(loss), higher |-> FALSE]]

\* ------------------------------------------------------------------------
\* The state: the hyperparameters closed over by the two lambdas, the memory
\* of the caller (the flat raw-score arrays and the label arrays of the
\* training and of the validation Dataset), and what the last call of each
\* function returned.
VARIABLES num_class, alpha, gamma, heap, objOut, evalOut

vars == <<num_class, alpha, gamma, heap, objOut, evalOut>>

\* the caller's objects: the scores passed to the objective and the label
\* array of lgbtrain, the scores passed to the metric and the label array of
\* lgbeval
TrainPredId == 1
TrainLabelId == 2
ValidPredId == 3
ValidLabelId == 4

\* the caller's arrays as values: the flat scores (class-major: flat position
\* j*N + i is observation i, class j) and the labels of the two datasets
train_pred == Flat(heap, TrainPredId)
y_tr == Flat(heap, TrainLabelId)
valid_pred == Flat(heap, ValidPredId)
y_val == Flat(heap, ValidLabelId)

\* number of observations of the training and of the validation dataset
NTrain == Len(y_tr)
NValid == Len(y_val)

\* the memory in which the caller holds four 1-D arrays, each with a buffer
\* of its own
CallerMemory(pred, lab, vpred, vlab) ==
    [arr |-> << [shape |-> <<Len(pred)>>, buf |-> TrainPredId],
                [shape |-> <<Len(lab)>>, buf |-> TrainLabelId],
                [shape |-> <<Len(vpred)>>, buf |-> ValidPredId],
                [shape |-> <<Len(vlab)>>, buf |-> ValidLabelId] >>,
     buf |-> <<pred, lab, vpred, vlab>>]

\* (alpha, gamma): the notebook's 0.25, 2. and plain cross-entropy 0.5, 0
Hyper == {<<One \div 4, 2>>, <<One \div 2, 0>>}

\* the labels 0.0 .. C-1.0
ValidLabels(C) == {j * Scale : j \in 0..(C - 1)}

\* labels around the ends of the index range, whole and fractional
AnyLabels(C) ==
    {j * Scale : j \in {-C - 1, -C, -1, C}}
        \cup {j * Scale + Scale \div 2 : j \in {-C - 1, -1, C - 1}}

\* scores that are all 0
Zeros(L) == [k \in 1..L |-> 0]

\* class-major scores in which every observation has the score hot for the
\* class of its label and cold for the other classes
Fitted(lab, C, hot, cold) ==
    [k \in 1..(Len(lab) * C) |->
        IF (k - 1) \div Len(lab) = AsInt(lab[((k - 1) % Len(lab)) + 1])
        THEN hot ELSE cold]

\* scores that differ at every flat position
Ramp(L) == [k \in 1..L |-> (2 * k - L - 1) * (Scale \div 8)]

\* the score arrays drawn: all 0, confident and right about every
\* observation (2 for its class, -1 for the others), confident and wrong
\* (-2 and 1), or different everywhere
Models == {"zero", "right", "wrong", "ramp"}

\* the raw scores of the kind m for the labels lab
Scores(m, lab, C) ==
    CASE m = "zero" -> Zeros(Len(lab) * C)
      [] m = "right" -> Fitted(lab, C, 2 * Scale, -Scale)
      [] m = "wrong" -> Fitted(lab, C, -2 * Scale, Scale)
      [] OTHER -> Ramp(Len(lab) * C)

\* the state before the first call: labels maps each number of classes to
\* the label values of the Dataset, hyper holds the (alpha, gamma) passed,
\* kinds the kinds of scores; the arrays for the metric start with the values
\* of those for the objective
InitCallsWith(labels, hyper, kinds) ==
    /\ num_class \in 2..NumClass
    /\ \E h \in hyper : alpha = h[1] /\ gamma = h[2]
    /\ \E N \in 1..(MaxRows - 1) : \E lab \in [1..N -> labels[num_class]] :
          \E m \in kinds :
              heap = CallerMemory(Scores(m, lab, num_class), lab,
                                  Scores(m, lab, num_class), lab)
    /\ objOut = NoResult
    /\ evalOut = NoMetric

\* focal_loss_lgb is called on the caller's training scores and lgbtrain, and
\* returns or raises
CallObjective ==
    LET call == run_focal_loss_lgb(heap, TrainPredId, TrainLabelId, alpha,
                                   gamma, num_class)
    IN  /\ heap' = call.mem
        /\ objOut' = call.result
        /\ UNCHANGED <<num_class, alpha, gamma, evalOut>>

\* focal_loss_lgb_eval_error is called on the caller's validation scores and
\* lgbeval, and returns or raises
CallEval ==
    LET call == run_focal_loss_lgb_eval_error(heap, ValidPredId, ValidLabelId,
                                              alpha, gamma, num_class)
    IN  /\ heap' = call.mem
        /\ evalOut' = call.result
        /\ UNCHANGED <<num_class, alpha, gamma, objOut>>

\* the scores of a sequence of calls: all 0, as before the first boosting
\* round, or different everywhere
Rounds == {"zero", "ramp"}

\* the caller writes the scores for its next calls into its two score arrays
NewScores ==
    \E m \in Rounds :
        LET s == Scores(m, y_tr, num_class)
        IN  /\ s # train_pred
            /\ heap' = [heap EXCEPT !.buf[heap.arr[TrainPredId].buf] = s,
                                    !.buf[heap.arr[ValidPredId].buf] = s]
            /\ UNCHANGED <<num_class, alpha, gamma, objOut, evalOut>>

\* calls in any order and number, with the notebook's alpha = 0.25,
\* gamma = 2. and new scores between them
Init ==
    InitCallsWith([C \in 2..NumClass |-> ValidLabels(C)], {<<One \div 4, 2>>},
                  Rounds)

Next == CallObjective \/ CallEval \/ NewScores

Spec == Init /\ [][Next]_vars

\* ------------------------------------------------------------------------
\* One call of each function on arguments drawn from bounded sets.

InitCalls ==
    InitCallsWith([C \in 2..NumClass |-> ValidLabels(C)], Hyper, Models)

\* the first call of focal_loss_lgb
DirectObjective == objOut.status = "none" /\ CallObjective

\* the first call of focal_loss_lgb_eval_error
DirectEval == evalOut.status = "none" /\ CallEval

NextCalls == DirectObjective \/ DirectEval

SpecCalls == InitCalls /\ [][NextCalls]_vars

\* the same on a Dataset whose labels are not all class indices, with the
\* notebook's alpha = 0.25, gamma = 2.
InitLabels ==
    InitCallsWith([C \in 2..NumClass |-> AnyLabels(C)], {<<One \div 4, 2>>},
                  Models)

SpecLabels == InitLabels /\ [][NextCalls]_vars

\* ------------------------------------------------------------------------
\* Properties.

\* the one-hot array a callback derives from the labels lab
YTrue(lab) == OneHot(lab, num_class)

\* the N x C score matrix a callback derives from the flat scores pred
PredMatrix(pred) == Reshape(pred, num_class)

\* the flat positions 0 .. N*C-1, in the layout of pred
Positions(pred) == [k \in 1..Len(pred) |-> k - 1]

\* (fl(x+h, t) - fl(x-h, t)) / (2h) for h = dx
CenteredFirst(x, t) ==
    Value(DivByDx(JOver(JSub(fl(JAdd(J(x), dx), t, alpha, gamma),
                             fl(JSub(J(x), dx), t, alpha, gamma)), 2)))

\* (fl(x+h, t) - 2 fl(x, t) + fl(x-h, t)) / h^2 for h = dx
CenteredSecond(x, t) ==
    Value(DivByDx(DivByDx(
        JAdd(JSub(fl(JAdd(J(x), dx), t, alpha, gamma),
                  JTimes(2, fl(J(x), t, alpha, gamma))),
             fl(JSub(J(x), dx), t, alpha, gamma)))))

\* C3: the gradient and the Hessian computed for cell (i, j) of the N x C
\* score matrix are returned at flat position j*N + i, class 0 of every
\* observation first, then class 1, and so on.
C3_ColumnMajorOutput ==
    objOut.status = "ok" =>
        LET G == derivative(PredMatrix(train_pred), YTrue(y_tr), alpha, gamma, 1)
            H == derivative(PredMatrix(train_pred), YTrue(y_tr), alpha, gamma, 2)
        IN  /\ Len(objOut.grad) = NTrain * num_class
            /\ Len(objOut.hess) = NTrain * num_class
            /\ \A i \in 0..(NTrain - 1) : \A j \in 0..(num_class - 1) :
                  /\ objOut.grad[j * NTrain + i + 1] = G[i + 1][j + 1]
                  /\ objOut.hess[j * NTrain + i + 1] = H[i + 1][j + 1]

\* an objective call on two observations whose cells have different gradients
C3_Witness ==
    /\ objOut.status = "ok"
    /\ NTrain = 2
    /\ num_class = 3
    /\ objOut.grad[2] # objOut.grad[3]
    /\ objOut.hess[2] # objOut.hess[3]

\* rows of the one-hot array of the labels lab, when they are class indices
OneHotRows(lab) ==
    (\A i \in 1..Len(lab) : lab[i] \in ValidLabels(num_class)) =>
        /\ Len(YTrue(lab)) = Len(lab)
        /\ \A i \in 1..Len(lab) :
              /\ Len(YTrue(lab)[i]) = num_class
              /\ \A c \in 0..(num_class - 1) :
                    YTrue(lab)[i][c + 1] = (IF c * Scale = lab[i] THEN 1 ELSE 0)
              /\ Cardinality({c \in 1..num_class : YTrue(lab)[i][c] = 1}) = 1
              /\ SumSeq(YTrue(lab)[i]) = 1

\* C4: for labels that are class indices in [0, C), row i of the one-hot
\* array has a single 1, in column labels[i], and 0 elsewhere; the row sums
\* to 1.
C4_OneHotRows == OneHotRows(y_tr) /\ OneHotRows(y_val)

\* both callbacks have run, the objective on two observations of different
\* classes
C4_Witness ==
    /\ objOut.status = "ok"
    /\ evalOut.status = "ok"
    /\ NTrain = 2
    /\ y_tr[1] # y_tr[2]
    /\ y_tr[2] = (num_class - 1) * Scale

\* C5: the metric is named focal_loss, lower is better, and its value is the
\* sum of the loss of all N*C cells divided by N*C.
C5_MeanOverAllCells ==
    evalOut.status = "ok" =>
        /\ evalOut.name = "focal_loss"
        /\ evalOut.higher = FALSE
        /\ evalOut.value =
              SumSeq([k \in 1..(NValid * num_class) |->
                        EvalLoss(valid_pred[k],
                                 YTrue(y_val)[((k - 1) \div num_class) + 1]
                                             [((k - 1) % num_class) + 1],
                                 alpha, gamma)])
                  \div (NValid * num_class)

\* a metric over two observations and three classes
C5_Witness ==
    /\ evalOut.status = "ok"
    /\ NValid = 2
    /\ num_class = 3
    /\ evalOut.value > 0
    /\ valid_pred = Ramp(6)

\* C9: each cell's gradient is (fl(x+h, t) - fl(x-h, t)) / (2h) and its
\* Hessian (fl(x+h, t) - 2 fl(x, t) + fl(x-h, t)) / h^2, with h = 1e-6 and x, t
\* the score and the label component of that cell alone.
C9_CenteredDifference ==
    objOut.status = "ok" =>
        /\ Value(dx) * 1000000 = One
        /\ \A i \in 0..(NTrain - 1) : \A j \in 0..(num_class - 1) :
              LET x == PredMatrix(train_pred)[i + 1][j + 1]
                  t == YTrue(y_tr)[i + 1][j + 1]
              IN  /\ objOut.grad[j * NTrain + i + 1] = CenteredFirst(x, t)
                  /\ objOut.hess[j * NTrain + i + 1] = CenteredSecond(x, t)

\* an objective call whose cells have non-zero derivatives of both orders,
\* and gradients of both signs
C9_Witness ==
    /\ objOut.status = "ok"
    /\ NTrain = 2
    /\ \E k \in 1..Len(objOut.grad) : objOut.grad[k] > 0 /\ objOut.hess[k] > 0
    /\ \E k \in 1..Len(objOut.grad) : objOut.grad[k] < 0

\* in the matrices a callback builds from the labels lab and the flat scores
\* pred, the score of cell (r, c) comes from a flat position whose observation
\* i and class j satisfy y_true[r][c] = onehot(lab[i])[j]
PairedByClassMajor(lab, pred) ==
    LET src == Reshape(Positions(pred), num_class)
    IN  \A r \in 1..Len(lab) : \A c \in 1..num_class :
            LET i == src[r][c] % Len(lab)
                j == src[r][c] \div Len(lab)
            IN  YTrue(lab)[r][c] = EyeRow(AsInt(lab[i + 1]), num_class)[j + 1]

\* C1: with the flat scores in class-major order (flat position j*N + i is
\* observation i, class j), every score meets the one-hot component of its
\* own observation and class in both callbacks, and the metric is the mean
\* loss of the pairs (score of (i, j), onehot(label[i])[j]).
C1_ClassMajorPairing ==
    /\ objOut.status = "ok" => PairedByClassMajor(y_tr, train_pred)
    /\ evalOut.status = "ok" =>
          /\ PairedByClassMajor(y_val, valid_pred)
          /\ evalOut.value =
                SumSeq([k \in 1..(NValid * num_class) |->
                          EvalLoss(valid_pred[k],
                                   YTrue(y_val)[((k - 1) % NValid) + 1]
                                               [((k - 1) \div NValid) + 1],
                                   alpha, gamma)])
                    \div (NValid * num_class)

\* C2: the gradient and the Hessian have N*C elements each, and the values
\* at output position k are the derivatives computed from the score at input
\* position k.
C2_NoReordering ==
    objOut.status = "ok" =>
        /\ Len(objOut.grad) = Len(train_pred)
        /\ Len(objOut.hess) = Len(train_pred)
        /\ FlattenF(Reshape(Positions(train_pred), num_class))
              = Positions(train_pred)
        /\ \A k \in 1..Len(train_pred) : \E t \in {0, 1} :
              /\ objOut.grad[k] = CenteredFirst(train_pred[k], t)
              /\ objOut.hess[k] = CenteredSecond(train_pred[k], t)

\* C6: in any sequence of calls, a call leaves every object of the caller
\* (the score arrays and the label arrays, their shapes and their values) as
\* it was and leaves no object behind, and what it returns is the function of
\* the values of its arguments alone, whatever calls came before.
C6_PureCalls ==
    [][ /\ CallObjective =>
            /\ heap' = heap
            /\ evalOut' = evalOut
            /\ objOut' = focal_loss_lgb(train_pred, y_tr, alpha, gamma, num_class)
        /\ CallEval =>
            /\ heap' = heap
            /\ objOut' = objOut
            /\ evalOut' = focal_loss_lgb_eval_error(valid_pred, y_val, alpha,
                                                    gamma, num_class)
      ]_vars

\* the objective has been called on the present scores after the metric was
\* called on other scores, and the caller's score array is still the 1-D
\* array over its own buffer
C6_Witness ==
    /\ objOut.status = "ok"
    /\ evalOut.status = "ok"
    /\ NTrain = 2
    /\ objOut.grad # Zeros(Len(objOut.grad))
    /\ objOut = focal_loss_lgb(train_pred, y_tr, alpha, gamma, num_class)
    /\ evalOut # focal_loss_lgb_eval_error(valid_pred, y_val, alpha, gamma,
                                           num_class)
    /\ heap.arr[TrainPredId] = [shape |-> <<NTrain * num_class>>, buf |-> TrainPredId]
    /\ Len(heap.arr) = ValidLabelId

\* the raw scores [[2,-1,-1]] and [[-2,1,1]] of the scenario
ConfidentCorrect == <<2 * Scale, -Scale, -Scale>>
ConfidentWrong == <<-2 * Scale, Scale, Scale>>

\* C7: with num_class = 3, alpha = 0.25, gamma = 2 and one observation of
\* class 0, the metric for the scores [2,-1,-1] is non-negative and less than
\* the metric for the scores [-2,1,1].
C7_ConfidentCorrectIsLower ==
    ( /\ evalOut.status = "ok"
      /\ num_class = 3
      /\ alpha = One \div 4
      /\ gamma = 2
      /\ y_val = <<0>>
      /\ valid_pred = ConfidentCorrect ) =>
        LET wrong == focal_loss_lgb_eval_error(ConfidentWrong, y_val, alpha,
                                               gamma, num_class)
        IN  /\ wrong.status = "ok"
            /\ evalOut.value >= 0
            /\ evalOut.value < wrong.value

\* the metric has been computed for the scores [2,-1,-1] of the scenario
C7_Witness ==
    /\ evalOut.status = "ok"
    /\ num_class = 3
    /\ alpha = One \div 4
    /\ gamma = 2
    /\ y_val = <<0>>
    /\ valid_pred = ConfidentCorrect
    /\ evalOut.value > 0

\* C8: the loss of a cell in the metric equals fl(x, t) of the objective,
\* which is -(alpha*t + (1-alpha)*(1-t)) * (1 - (t*p + (1-t)*(1-p)))**gamma
\* * (t*log(p) + (1-t)*log(1-p)) with p = 1/(1+exp(-x)); so the metric is the
\* mean of fl over the cells.
C8_SameKernel ==
    evalOut.status = "ok" =>
        /\ \A r \in 1..NValid : \A c \in 1..num_class : \A t \in {0, 1} :
              LET x == PredMatrix(valid_pred)[r][c]
                  p == Div(One, One + Exp(-x))
              IN  /\ EvalLoss(x, t, alpha, gamma) = Value(fl(J(x), t, alpha, gamma))
                  /\ EvalLoss(x, t, alpha, gamma) =
                        Mul(Mul(-(alpha * t + (One - alpha) * (1 - t)),
                                Pow(One - (t * p + (1 - t) * (One - p)), gamma)),
                            t * Log(p) + (1 - t) * Log(One - p))
        /\ evalOut.value =
              Mean([r \in 1..NValid |-> [c \in 1..num_class |->
                      Value(fl(J(PredMatrix(valid_pred)[r][c]),
                               YTrue(y_val)[r][c], alpha, gamma))]])

\* the metric of scores that differ everywhere, with the notebook's gamma
C8_Witness ==
    /\ evalOut.status = "ok"
    /\ gamma = 2
    /\ NValid = 2
    /\ valid_pred = Ramp(Len(valid_pred))
    /\ evalOut.value > 0

\* C10 as stated, for a callback that has ended with the given status on the
\* labels lab: a label l >= num_class or l < -num_class makes the call fail
\* with an index error; a label l in [-num_class, -1] is accepted and encoded
\* as class num_class + l.
LabelRange(lab, status) ==
    status # "none" =>
        /\ (\E i \in 1..Len(lab) :
               lab[i] >= num_class * Scale \/ lab[i] < -num_class * Scale)
              => status = "IndexError"
        /\ (\A i \in 1..Len(lab) :
               lab[i] >= -num_class * Scale /\ lab[i] < num_class * Scale)
              => status = "ok"
        /\ status = "ok" =>
              \A i \in 1..Len(lab) :
                  (lab[i] >= -num_class * Scale /\ lab[i] <= -Scale) =>
                      \E c \in 0..(num_class - 1) :
                          /\ c * Scale = num_class * Scale + lab[i]
                          /\ YTrue(lab)[i] = Eye(num_class)[c + 1]

\* the same with l the label truncated toward zero
TruncatedLabelRange(lab, status) ==
    status # "none" =>
        /\ (\E i \in 1..Len(lab) :
               AsInt(lab[i]) >= num_class \/ AsInt(lab[i]) < -num_class)
              => status = "IndexError"
        /\ (\A i \in 1..Len(lab) :
               AsInt(lab[i]) >= -num_class /\ AsInt(lab[i]) < num_class)
              => status = "ok"
        /\ status = "ok" =>
              \A i \in 1..Len(lab) :
                  (AsInt(lab[i]) >= -num_class /\ AsInt(lab[i]) <= -1) =>
                      YTrue(lab)[i] = Eye(num_class)[num_class + AsInt(lab[i]) + 1]

\* the result of a failed call holds no gradient, Hessian or metric
Failed ==
    /\ objOut.status = "IndexError" => objOut = IndexError
    /\ evalOut.status = "IndexError" => evalOut = MetricError

\* C10 as stated: a label l >= num_class or l < -num_class makes the call
\* fail with an index error and no result; a label l in [-num_class, -1] is
\* accepted and encoded as class num_class + l.
C10_LabelRange ==
    /\ LabelRange(y_tr, objOut.status)
    /\ LabelRange(y_val, evalOut.status)
    /\ Failed

\* C10 amended: with l the label truncated toward zero, l >= num_class or
\* l < -num_class makes the call fail with an index error and no result;
\* otherwise the call succeeds, and l in [-num_class, -1] is encoded as class
\* num_class + l.
C10_TruncatedLabelRange ==
    /\ TruncatedLabelRange(y_tr, objOut.status)
    /\ TruncatedLabelRange(y_val, evalOut.status)
    /\ Failed

\* both callbacks succeeded on a label below -num_class that truncates to
\* -num_class
C10_Witness ==
    /\ objOut.status = "ok"
    /\ evalOut.status = "ok"
    /\ \E i \in 1..NValid :
          /\ y_val[i] < -num_class * Scale
          /\ AsInt(y_val[i]) = -num_class
          /\ YTrue(y_val)[i][1] = 1

====
